---- MODULE Spec2Model ----
(***************************************************************************)
(* Model of the ALD logging pipeline of services/database_log_service.py   *)
(* and of the storage sink of database_interface.py.                       *)
(*                                                                         *)
(* Two threads run the program.  The paho network thread ("loop") invokes  *)
(* the topic callbacks of MQTTReceiver one after the other; the main       *)
(* thread ("main") runs DatabaseWorker.process_data and, when that is left *)
(* by an exception, the exits of the two with-blocks of __main__.          *)
(*                                                                         *)
(* JSON values are written as their JSON token (a string): "1.5", "0.0",   *)
(* "true", and the text of a timestamp.  A key that the payload does not   *)
(* hold has the value Absent.                                              *)
(***************************************************************************)
EXTENDS Integers, Sequences, FiniteSets, TLC

VARIABLES
    now,                  \* the wall clock read by datetime.now()
    queue,                \* data_queue: Queue of Message objects
    rstate,               \* loop thread: "idle", "valves" (inside the for loop of
                          \* _on_valves), "dead" (an exception left a callback),
                          \* "stopped" (loop_stop)
    rvalves,              \* the items of values.items() _on_valves has still to visit
    ndelivered,           \* number of MQTT messages delivered so far
    cb,                   \* the callback invocation in progress or last finished:
                          \* its topic, its message, how it ended, and the number
                          \* of Messages put before it began (base)
    pc,                   \* main thread: position in process_data / __main__
    item,                 \* the Message process_data holds
    exc,                  \* the last exception raised in the main thread
    time_of_last_commit,  \* DatabaseWorker._time_of_last_commit
    new_to_commit,        \* DatabaseInterface._new_to_commit
    conn_dirty,           \* the connection holds statements executed and not committed
    conn_open,            \* the MySQLdb connection is open
    conn_commits,         \* number of successful commits of the MySQLdb connection
    sink_ops,             \* history: calls of DatabaseInterface insert_* / commit
    enq,                  \* history: every Message put on the queue
    taken,                \* history: every Message got from the queue
    last_commit_at,       \* history: clock at the last commit issued by the worker loop
    uncommitted_since,    \* history: clock at the oldest insert no commit has covered
    interrupted           \* history: KeyboardInterrupt was raised in process_data

rvars == <<rstate, rvalves, ndelivered, cb>>
wvars == <<pc, item, exc, time_of_last_commit>>
dbvars == <<new_to_commit, conn_dirty, conn_open, conn_commits, sink_ops>>
hvars == <<last_commit_at, uncommitted_since, interrupted>>
vars == <<now, queue, rvars, wvars, dbvars, enq, taken, hvars>>

----------------------------------------------------------------------------
(* Bounds and constants *)

\* number of MQTT messages delivered in one run
MaxMsgs == 2

\* DatabaseWorker.COMMIT_FREQUENCY = timedelta(seconds=10), in seconds
COMMIT_FREQUENCY == 10

\* the clock readings explored: no time elapsed, less than the interval,
\* exactly the interval, more than the interval
ClockReadings == {0, 1, COMMIT_FREQUENCY, COMMIT_FREQUENCY + 1}

NoTime == 0 - 1

Absent == "<absent>"
ParseError == "<ParserError>"

----------------------------------------------------------------------------
(* dateutil.parser.parse followed by datetime.isoformat(), on the timestamp *)
(* texts the payloads below carry.                                          *)

Parse(text) ==
    CASE text = "2024-01-01T00:00:00" -> "2024-01-01T00:00:00"
      [] text = "2024-01-01 00:00:01" -> "2024-01-01T00:00:01"
      [] text = "Jan 1 2024 00:00:02" -> "2024-01-01T00:00:02"
      [] OTHER -> ParseError

----------------------------------------------------------------------------
(* The Message classes *)

SampleTemperatureMessage(temperature, resistance, timestamp) ==
    [kind |-> "SampleTemperature", temperature |-> temperature,
     resistance |-> resistance, timestamp |-> timestamp]

\* (faulty variant: a falsy reading replaced by None, as `pressure or None`)
PressureMessage_falsy(timestamp, pressure) ==
    [kind |-> "Pressure", timestamp |-> timestamp,
     pressure |-> IF pressure \in {"0", "0.0", "false"} THEN "None" ELSE pressure]

PressureMessage(timestamp, pressure) ==
    [kind |-> "Pressure", timestamp |-> timestamp, pressure |-> pressure]

FlowMessage(temperature, volume_flow, mass_flow, pressure, setpoint, timestamp) ==
    [kind |-> "Flow", temperature |-> temperature, volume_flow |-> volume_flow,
     mass_flow |-> mass_flow, pressure |-> pressure, setpoint |-> setpoint,
     timestamp |-> timestamp]

\* (faulty variant: the first two arguments taken in the wrong order)
ValveMessage_swapped(timestamp, name, state) ==
    [kind |-> "Valve", timestamp |-> name, name |-> timestamp, state |-> state]

ValveMessage(timestamp, name, state) ==
    [kind |-> "Valve", timestamp |-> timestamp, name |-> name, state |-> state]

TemperatureMessage(loop_id, datetime, temperature, wsp, tsp, power) ==
    [kind |-> "Temperature", loop_id |-> loop_id, datetime |-> datetime,
     temperature |-> temperature, wsp |-> wsp, tsp |-> tsp, power |-> power]

NoItem == [kind |-> "None"]

\* the timestamp text a Message carries
TimestampOf(m) == IF m.kind = "Temperature" THEN m.datetime ELSE m.timestamp

\* the DatabaseInterface method the insert_into_db of each class calls
InsertMethod(kind) ==
    CASE kind = "SampleTemperature" -> "insert_sample_temperature"
      [] kind = "Pressure" -> "insert_pressure"
      [] kind = "Flow" -> "insert_flow"
      [] kind = "Valve" -> "insert_valves"
      [] kind = "Temperature" -> "insert_temperature"

\* Message.insert_into_db: the DatabaseInterface call it makes, once the
\* timestamp has been parsed; args in the order of the method's parameters
InsertCall(m) ==
    [op |-> InsertMethod(m.kind),
     args |->
       CASE m.kind = "SampleTemperature" ->
              <<Parse(m.timestamp), m.resistance, m.temperature>>
         [] m.kind = "Pressure" ->
              <<Parse(m.timestamp), m.pressure>>
         [] m.kind = "Flow" ->
              <<Parse(m.timestamp), m.volume_flow, m.mass_flow, m.pressure,
                m.setpoint, m.temperature>>
         [] m.kind = "Valve" ->
              <<Parse(m.timestamp), m.name, m.state>>
         [] m.kind = "Temperature" ->
              <<Parse(m.datetime), m.loop_id, m.temperature, m.wsp, m.tsp,
                m.power>>]

----------------------------------------------------------------------------
(* MQTT payloads.  json is FALSE for a payload json.loads rejects.         *)

SAMPLE_TEMP_MESSAGE_KEYS == <<"temperature", "resistance", "timestamp">>
FLOW_MESSAGE_KEYS ==
    <<"temperature", "volflow", "massflow", "pressure", "setpoint", "timestamp">>
PRESSURE_MESSAGE_KEYS == <<"timestamp", "pressure">>
TEMPERATURE_TOPICS ==
    {"leftlinevacuum", "centerlinevacuum", "copperheater", "rightlinevacuum",
     "leftprecursor", "leftlineair", "rightlineair", "rightprecursor"}
TEMPERATURE_MESSAGE_KEYS == <<"loop", "datetime", "temperature", "wsp", "tsp", "power">>

PressurePayloads ==
    {[json |-> TRUE,
      values |-> [timestamp |-> "2024-01-01T00:00:00", pressure |-> "1.5"]],
     [json |-> TRUE,
      values |-> [timestamp |-> "2024-01-01 00:00:01", pressure |-> "0.0"]],
     [json |-> TRUE,
      values |-> [timestamp |-> "not a date", pressure |-> "1.5"]],
     [json |-> TRUE,
      values |-> [timestamp |-> "2024-01-01T00:00:00", pressure |-> Absent]],
     [json |-> FALSE,
      values |-> [timestamp |-> Absent, pressure |-> Absent]]}

FlowPayloads ==
    {[json |-> TRUE,
      values |-> [temperature |-> "21.5", volflow |-> "2.0", massflow |-> "3.0",
                  pressure |-> "4.0", setpoint |-> "0",
                  timestamp |-> "2024-01-01T00:00:00"]],
     [json |-> TRUE,
      values |-> [temperature |-> "21.5", volflow |-> "2.0", massflow |-> "3.0",
                  pressure |-> "4.0", setpoint |-> Absent,
                  timestamp |-> "2024-01-01T00:00:00"]]}

SampleTemperaturePayloads ==
    {[json |-> TRUE,
      values |-> [temperature |-> "300.0", resistance |-> "110.5",
                  timestamp |-> "Jan 1 2024 00:00:02"]],
     [json |-> FALSE,
      values |-> [temperature |-> Absent, resistance |-> Absent,
                  timestamp |-> Absent]]}

TemperaturePayloads ==
    {[json |-> TRUE,
      values |-> [loop |-> "3", datetime |-> "2024-01-01T00:00:00",
                  temperature |-> "150.0", wsp |-> "151.0", tsp |-> "152.0",
                  power |-> "0"]],
     [json |-> TRUE,
      values |-> [loop |-> "3", datetime |-> Absent,
                  temperature |-> "150.0", wsp |-> "151.0", tsp |-> "152.0",
                  power |-> "0"]]}

\* io/state: the members of the JSON object in the order of the text; a member
\* is a valve name and its sub-object
ValvesPayloads ==
    {[json |-> TRUE, values |-> <<>>],
     [json |-> TRUE,
      values |-> <<[name |-> "V1", state |-> "true",
                    timestamp |-> "2024-01-01T00:00:00"],
                   [name |-> "V2", state |-> "false",
                    timestamp |-> "2024-01-01 00:00:01"]>>],
     [json |-> TRUE,
      values |-> <<[name |-> "V1", state |-> "true",
                    timestamp |-> "2024-01-01T00:00:00"],
                   [name |-> "V1", state |-> "false",
                    timestamp |-> "2024-01-01 00:00:01"]>>],
     [json |-> TRUE,
      values |-> <<[name |-> "V1", state |-> "true",
                    timestamp |-> "2024-01-01T00:00:00"],
                   [name |-> "V2", state |-> Absent,
                    timestamp |-> "2024-01-01 00:00:01"]>>],
     [json |-> FALSE, values |-> <<>>]}

\* (faulty variant: only the first key is looked up before the put, the
\* others read with dict.get)
Missing_firstkey(values, keys) == values[keys[1]] = Absent

\* values[key] raises KeyError
Missing(values, keys) == \E i \in 1..Len(keys) : values[keys[i]] = Absent

\* json.loads builds a dict: a name that occurs twice keeps the place of its
\* first member and the value of its last
LastMember(members, name) ==
    members[CHOOSE i \in 1..Len(members) :
               /\ members[i].name = name
               /\ \A j \in (i+1)..Len(members) : members[j].name # name]

RECURSIVE DictItemsFrom(_, _)
DictItemsFrom(members, i) ==
    IF i > Len(members) THEN <<>>
    ELSE IF \E j \in 1..(i-1) : members[j].name = members[i].name
         THEN DictItemsFrom(members, i + 1)
         ELSE <<LastMember(members, members[i].name)>> \o DictItemsFrom(members, i + 1)

DictItems(members) == DictItemsFrom(members, 1)

----------------------------------------------------------------------------
Init ==
    /\ now = 0
    /\ queue = <<>>
    /\ rstate = "idle"
    /\ rvalves = <<>>
    /\ ndelivered = 0
    /\ cb = [topic |-> "none", status |-> "returned", base |-> 0,
             message |-> [json |-> FALSE, values |-> <<>>]]
    /\ pc = "get"
    /\ item = NoItem
    /\ exc = "none"
    /\ time_of_last_commit = 0
    /\ new_to_commit = FALSE
    /\ conn_dirty = FALSE
    /\ conn_open = TRUE
    /\ conn_commits = 0
    /\ sink_ops = <<>>
    /\ enq = <<>>
    /\ taken = <<>>
    /\ last_commit_at = NoTime
    /\ uncommitted_since = NoTime
    /\ interrupted = FALSE

----------------------------------------------------------------------------
(* The clock *)

\* time passes; two readings of datetime.now() with no Tick between them
\* return the same value
Tick ==
    /\ pc # "exited"
    /\ \E t \in ClockReadings : t > now /\ now' = t
    /\ UNCHANGED <<queue, rvars, wvars, dbvars, enq, taken, hvars>>

----------------------------------------------------------------------------
(* The storage sink: DatabaseInterface over one MySQLdb connection.        *)
(* ok is FALSE when the MySQLdb call raises.                               *)

\* the entry of sink_ops for one call of a DatabaseInterface method: db is
\* the call it made on the MySQLdb connection ("execute", "commit" or
\* "none"), outcome is how it ended ("returned", "raised", "interrupted")
SinkCall(op, args, thread, db, outcome) ==
    [op |-> op, args |-> args, by |-> thread, db |-> db, outcome |-> outcome]

\* (faulty variant: _set raises the flag before cursor.execute)
DbInsert_flagfirst(call, thread, ok) ==
    /\ sink_ops' = Append(sink_ops, SinkCall(call.op, call.args, thread, "execute",
                                            IF ok THEN "returned" ELSE "raised"))
    /\ new_to_commit' = TRUE
    /\ IF ok
       THEN /\ conn_dirty' = TRUE
            /\ uncommitted_since' = IF uncommitted_since = NoTime THEN now
                                    ELSE uncommitted_since
       ELSE UNCHANGED <<conn_dirty, uncommitted_since>>
    /\ UNCHANGED <<conn_open, conn_commits>>

\* an insert_* method and _set
DbInsert(call, thread, ok) ==
    /\ sink_ops' = Append(sink_ops, SinkCall(call.op, call.args, thread, "execute",
                                            IF ok THEN "returned" ELSE "raised"))
    /\ IF ok
       THEN /\ new_to_commit' = TRUE
            /\ conn_dirty' = TRUE
            /\ uncommitted_since' = IF uncommitted_since = NoTime THEN now
                                    ELSE uncommitted_since
       ELSE UNCHANGED <<new_to_commit, conn_dirty, uncommitted_since>>
    /\ UNCHANGED <<conn_open, conn_commits>>

\* (faulty variant: commit does not lower the flag)
DbCommit_keepsflag(thread, ok) ==
    /\ sink_ops' = Append(sink_ops,
                          SinkCall("commit", <<>>, thread,
                                   IF new_to_commit THEN "commit" ELSE "none",
                                   IF ok THEN "returned" ELSE "raised"))
    /\ IF new_to_commit
       THEN IF ok
            THEN /\ conn_dirty' = FALSE
                 /\ conn_commits' = conn_commits + 1
                 /\ uncommitted_since' = NoTime
            ELSE UNCHANGED <<conn_dirty, conn_commits, uncommitted_since>>
       ELSE /\ ok
            /\ UNCHANGED <<conn_dirty, conn_commits, uncommitted_since>>
    /\ UNCHANGED <<new_to_commit, conn_open>>

\* DatabaseInterface.commit
DbCommit(thread, ok) ==
    /\ sink_ops' = Append(sink_ops,
                          SinkCall("commit", <<>>, thread,
                                   IF new_to_commit THEN "commit" ELSE "none",
                                   IF ok THEN "returned" ELSE "raised"))
    /\ IF new_to_commit
       THEN /\ new_to_commit' = FALSE
            /\ IF ok
               THEN /\ conn_dirty' = FALSE
                    /\ conn_commits' = conn_commits + 1
                    /\ uncommitted_since' = NoTime
               ELSE UNCHANGED <<conn_dirty, conn_commits, uncommitted_since>>
       ELSE /\ ok
            /\ UNCHANGED <<new_to_commit, conn_dirty, conn_commits, uncommitted_since>>
    /\ UNCHANGED conn_open

----------------------------------------------------------------------------
(* The loop thread: the topic callbacks of MQTTReceiver.  paho runs them    *)
(* one at a time; a callback that raises ends the thread.                   *)

\* (faulty variant: a Queue(maxsize=1) filled with put_nowait, the Full
\* exception dropped)
QueuePut_bounded(q, m) == IF Len(q) >= 1 THEN q ELSE Append(q, m)

\* Queue.put, and Queue.get as the pair <<item, rest>>
QueuePut(q, m) == Append(q, m)

\* (faulty variant: a LifoQueue)
QueueGet_lifo(q) == <<q[Len(q)], SubSeq(q, 1, Len(q) - 1)>>

QueueGet(q) == <<Head(q), Tail(q)>>

Deliverable == rstate = "idle" /\ ndelivered < MaxMsgs

\* an exception leaves the callback: nothing catches it
CallbackRaises(topic, message) ==
    /\ rstate' = "dead"
    /\ rvalves' = <<>>
    /\ cb' = [topic |-> topic, status |-> "raised", base |-> Len(enq),
              message |-> message]
    /\ UNCHANGED <<queue, enq>>

\* the callback puts one Message and returns
CallbackPuts(topic, message, m) ==
    /\ queue' = QueuePut(queue, m)
    /\ enq' = Append(enq, m)
    /\ cb' = [topic |-> topic, status |-> "returned", base |-> Len(enq),
              message |-> message]
    /\ UNCHANGED <<rstate, rvalves>>

OnFlowState(message) ==
    /\ Deliverable
    /\ ndelivered' = ndelivered + 1
    /\ IF ~message.json \/ Missing(message.values, FLOW_MESSAGE_KEYS)
       THEN CallbackRaises("ald/flow/state", message)
       ELSE LET values == message.values
                temp == values[FLOW_MESSAGE_KEYS[1]]
                volflow == values[FLOW_MESSAGE_KEYS[2]]
                massflow == values[FLOW_MESSAGE_KEYS[3]]
                pressure == values[FLOW_MESSAGE_KEYS[4]]
                setpoint == values[FLOW_MESSAGE_KEYS[5]]
                timestamp == values[FLOW_MESSAGE_KEYS[6]]
            IN  CallbackPuts("ald/flow/state", message,
                    FlowMessage(temp, volflow, massflow, pressure, setpoint, timestamp))
    /\ UNCHANGED <<now, wvars, dbvars, taken, hvars>>

\* (faulty variant: the callback writes the row itself)
OnPressureMain_writes(message) ==
    /\ Deliverable
    /\ ndelivered' = ndelivered + 1
    /\ message.json /\ ~Missing(message.values, PRESSURE_MESSAGE_KEYS)
    /\ Parse(message.values.timestamp) # ParseError
    /\ cb' = [topic |-> "ald/pressure/main", status |-> "returned", base |-> Len(enq),
              message |-> message]
    /\ DbInsert(InsertCall(PressureMessage(message.values.timestamp,
                                           message.values.pressure)), "loop", TRUE)
    /\ UNCHANGED <<now, queue, enq, rstate, rvalves, wvars, taken, last_commit_at, interrupted>>

OnPressureMain(message) ==
    /\ Deliverable
    /\ ndelivered' = ndelivered + 1
    /\ IF ~message.json \/ Missing(message.values, PRESSURE_MESSAGE_KEYS)
       THEN CallbackRaises("ald/pressure/main", message)
       ELSE LET values == message.values
                timestamp == values[PRESSURE_MESSAGE_KEYS[1]]
                pressure == values[PRESSURE_MESSAGE_KEYS[2]]
            IN  CallbackPuts("ald/pressure/main", message,
                    PressureMessage(timestamp, pressure))
    /\ UNCHANGED <<now, wvars, dbvars, taken, hvars>>

OnSampleTemperature(message) ==
    /\ Deliverable
    /\ ndelivered' = ndelivered + 1
    /\ IF ~message.json \/ Missing(message.values, SAMPLE_TEMP_MESSAGE_KEYS)
       THEN CallbackRaises("ald/sample/temperature", message)
       ELSE LET values == message.values
                temp == values[SAMPLE_TEMP_MESSAGE_KEYS[1]]
                resistance == values[SAMPLE_TEMP_MESSAGE_KEYS[2]]
                datetime == values[SAMPLE_TEMP_MESSAGE_KEYS[3]]
            IN  CallbackPuts("ald/sample/temperature", message,
                    SampleTemperatureMessage(temp, resistance, datetime))
    /\ UNCHANGED <<now, wvars, dbvars, taken, hvars>>

OnTemperature(topic, message) ==
    /\ Deliverable
    /\ ndelivered' = ndelivered + 1
    /\ IF ~message.json \/ Missing(message.values, TEMPERATURE_MESSAGE_KEYS)
       THEN CallbackRaises("ald/temperature", message)
       ELSE LET values == message.values
                loop == values[TEMPERATURE_MESSAGE_KEYS[1]]
                datetime == values[TEMPERATURE_MESSAGE_KEYS[2]]
                temperature == values[TEMPERATURE_MESSAGE_KEYS[3]]
                wsp == values[TEMPERATURE_MESSAGE_KEYS[4]]
                tsp == values[TEMPERATURE_MESSAGE_KEYS[5]]
                power == values[TEMPERATURE_MESSAGE_KEYS[6]]
            IN  CallbackPuts("ald/temperature", message,
                    TemperatureMessage(loop, datetime, temperature, wsp, tsp, power))
    /\ UNCHANGED <<now, wvars, dbvars, taken, hvars>>

\* _on_valves up to the for loop: json.loads and values.items()
OnValves(message) ==
    /\ Deliverable
    /\ ndelivered' = ndelivered + 1
    /\ IF ~message.json
       THEN CallbackRaises("ald/io/state", message)
       ELSE LET items == DictItems(message.values)
            IN  /\ rvalves' = items
                /\ rstate' = IF items = <<>> THEN "idle" ELSE "valves"
                /\ cb' = [topic |-> "ald/io/state",
                          status |-> IF items = <<>> THEN "returned" ELSE "running",
                          base |-> Len(enq), message |-> message]
                /\ UNCHANGED <<queue, enq>>
    /\ UNCHANGED <<now, wvars, dbvars, taken, hvars>>

\* one pass of the for loop of _on_valves
OnValvesEntry ==
    /\ rstate = "valves"
    /\ LET valve_name == Head(rvalves).name
           valve_data == Head(rvalves)
       IN  IF valve_data.state = Absent \/ valve_data.timestamp = Absent
           THEN /\ rstate' = "dead"
                /\ rvalves' = <<>>
                /\ cb' = [cb EXCEPT !.status = "raised"]
                /\ UNCHANGED <<queue, enq>>
           ELSE LET state == valve_data.state
                    datetime == valve_data.timestamp
                    m == ValveMessage(datetime, valve_name, state)
                IN  /\ queue' = QueuePut(queue, m)
                    /\ enq' = Append(enq, m)
                    /\ rvalves' = Tail(rvalves)
                    /\ rstate' = IF Tail(rvalves) = <<>> THEN "idle" ELSE "valves"
                    /\ cb' = [cb EXCEPT !.status = IF Tail(rvalves) = <<>>
                                                   THEN "returned" ELSE "running"]
    /\ UNCHANGED <<now, ndelivered, wvars, dbvars, taken, hvars>>

Receiver ==
    \/ \E message \in FlowPayloads : OnFlowState(message)
    \/ \E message \in PressurePayloads : OnPressureMain(message)
    \/ \E message \in SampleTemperaturePayloads : OnSampleTemperature(message)
    \/ \E topic \in TEMPERATURE_TOPICS :
          \E message \in TemperaturePayloads : OnTemperature(topic, message)
    \/ \E message \in ValvesPayloads : OnValves(message)
    \/ OnValvesEntry

----------------------------------------------------------------------------
(* The main thread: DatabaseWorker.process_data                            *)

\* time_since_last_commit / self.COMMIT_FREQUENCY: the quotient of two
\* timedeltas is a float, kept here as <<numerator, denominator>>
TimedeltaDiv(a, b) == <<a, b>>

\* bool() of that float: it is false for 0.0 alone
Truthy(quotient) == quotient[1] # 0

\* (faulty variant: get(timeout=...) in a loop that commits on queue.Empty)
WorkerGet_timeout ==
    /\ pc = "get"
    /\ IF queue = <<>>
       THEN /\ new_to_commit
            /\ DbCommit("main", TRUE)
            /\ UNCHANGED <<queue, item, taken, pc, last_commit_at, interrupted>>
       ELSE /\ item' = QueueGet(queue)[1]
            /\ queue' = QueueGet(queue)[2]
            /\ taken' = Append(taken, QueueGet(queue)[1])
            /\ pc' = "insert"
            /\ UNCHANGED <<dbvars, hvars>>
    /\ UNCHANGED <<now, rvars, exc, time_of_last_commit, enq>>

\* item = self._queue.get(): blocks while the queue is empty
WorkerGet ==
    /\ pc = "get"
    /\ queue # <<>>
    /\ item' = QueueGet(queue)[1]
    /\ queue' = QueueGet(queue)[2]
    /\ taken' = Append(taken, QueueGet(queue)[1])
    /\ pc' = "insert"
    /\ UNCHANGED <<now, rvars, exc, time_of_last_commit, dbvars, enq, hvars>>

\* item.insert_into_db(self._db_connection)
WorkerInsert ==
    /\ pc = "insert"
    /\ IF Parse(TimestampOf(item)) = ParseError
       THEN \* dateutil raises before the sink is called
            /\ pc' = "stop_loop"
            /\ exc' = "ValueError"
            /\ UNCHANGED <<dbvars, uncommitted_since>>
       ELSE \E ok \in BOOLEAN :
            /\ DbInsert(InsertCall(item), "main", ok)
            /\ pc' = IF ok THEN "check" ELSE "stop_loop"
            /\ exc' = IF ok THEN exc ELSE "MySQLError"
    /\ item' = NoItem    \* item is not read again before the next get()
    /\ UNCHANGED <<now, queue, rvars, time_of_last_commit, enq, taken, last_commit_at,
                   interrupted>>

\* the batching test and self.commit()
WorkerCheck ==
    /\ pc = "check"
    /\ LET time_since_last_commit == now - time_of_last_commit
       IN  IF Truthy(TimedeltaDiv(time_since_last_commit, COMMIT_FREQUENCY))
           THEN \E ok \in BOOLEAN :
                /\ DbCommit("main", ok)
                /\ last_commit_at' = now
                /\ UNCHANGED interrupted
                /\ pc' = IF ok THEN "get" ELSE "stop_loop"
                /\ exc' = IF ok THEN exc ELSE "MySQLError"
           ELSE /\ pc' = "get"
                /\ UNCHANGED <<dbvars, hvars, exc>>
    /\ UNCHANGED <<now, queue, rvars, item, time_of_last_commit, enq, taken>>

----------------------------------------------------------------------------
(* The main thread: leaving process_data (__main__)                        *)

\* KeyboardInterrupt is raised in the main thread
Interrupt ==
    /\ pc \in {"get", "insert", "check"}
    /\ pc' = "interrupted"
    /\ exc' = "KeyboardInterrupt"
    /\ item' = NoItem
    /\ interrupted' = TRUE
    /\ UNCHANGED <<now, queue, rvars, time_of_last_commit, dbvars, enq, taken,
                   last_commit_at, uncommitted_since>>

\* KeyboardInterrupt is raised while _set runs, after cursor.execute has
\* returned and before self._new_to_commit = True
InterruptInSet ==
    /\ pc = "insert"
    /\ Parse(TimestampOf(item)) # ParseError
    /\ sink_ops' = Append(sink_ops, SinkCall(InsertCall(item).op, InsertCall(item).args,
                                            "main", "execute", "interrupted"))
    /\ conn_dirty' = TRUE
    /\ uncommitted_since' = IF uncommitted_since = NoTime THEN now
                            ELSE uncommitted_since
    /\ pc' = "interrupted"
    /\ exc' = "KeyboardInterrupt"
    /\ item' = NoItem
    /\ interrupted' = TRUE
    /\ UNCHANGED <<now, queue, rvars, time_of_last_commit, new_to_commit, conn_open,
                   conn_commits, enq, taken, last_commit_at>>

\* KeyboardInterrupt is raised while DatabaseInterface.commit runs, after
\* self._new_to_commit = False and before self._connection.commit()
InterruptInCommit ==
    /\ pc = "check"
    /\ Truthy(TimedeltaDiv(now - time_of_last_commit, COMMIT_FREQUENCY))
    /\ new_to_commit
    /\ sink_ops' = Append(sink_ops, SinkCall("commit", <<>>, "main", "none", "interrupted"))
    /\ new_to_commit' = FALSE
    /\ pc' = "interrupted"
    /\ exc' = "KeyboardInterrupt"
    /\ item' = NoItem
    /\ interrupted' = TRUE
    /\ UNCHANGED <<now, queue, rvars, time_of_last_commit, conn_dirty, conn_open,
                   conn_commits, enq, taken, last_commit_at, uncommitted_since>>

\* except KeyboardInterrupt: db_connection.commit()
OnKeyboardInterrupt ==
    /\ pc = "interrupted"
    /\ \E ok \in BOOLEAN :
         /\ DbCommit("main", ok)
         /\ exc' = IF ok THEN exc ELSE "MySQLError"
    /\ pc' = "stop_loop"
    /\ UNCHANGED <<now, queue, rvars, item, time_of_last_commit, enq, taken,
                   last_commit_at, interrupted>>

\* (faulty variant: __exit__ does not call loop_stop)
ReceiverExit_nostop ==
    /\ pc = "stop_loop"
    /\ pc' = "close_db"
    /\ UNCHANGED <<now, queue, rvars, item, exc, time_of_last_commit, dbvars, enq,
                   taken, hvars>>

\* MQTTReceiver.__exit__: loop_stop() joins the loop thread
ReceiverExit ==
    /\ pc = "stop_loop"
    /\ rstate \in {"idle", "dead"}
    /\ rstate' = IF rstate = "idle" THEN "stopped" ELSE rstate
    /\ pc' = "close_db"
    /\ UNCHANGED <<now, queue, rvalves, ndelivered, cb, item, exc,
                   time_of_last_commit, dbvars, enq, taken, hvars>>

\* (faulty variant: __exit__ closes the connection without committing, and
\* MySQL rolls the open transaction back)
DatabaseExit_closeonly ==
    /\ pc = "close_db"
    /\ conn_open' = FALSE
    /\ pc' = "exited"
    /\ UNCHANGED <<now, queue, rvars, item, exc, time_of_last_commit, new_to_commit,
                   conn_dirty, conn_commits, sink_ops, enq, taken, hvars>>

\* OpenDatabaseConnection.__exit__: connection.commit(); connection.close()
DatabaseExit ==
    /\ pc = "close_db"
    /\ \E ok \in BOOLEAN :
         IF ok
         THEN /\ conn_dirty' = FALSE
              /\ conn_commits' = conn_commits + 1
              /\ uncommitted_since' = NoTime
              /\ conn_open' = FALSE
              /\ UNCHANGED exc
         ELSE /\ exc' = "MySQLError"
              /\ UNCHANGED <<conn_dirty, conn_commits, uncommitted_since, conn_open>>
    /\ pc' = "exited"
    /\ UNCHANGED <<now, queue, rvars, item, time_of_last_commit, new_to_commit,
                   sink_ops, enq, taken, last_commit_at, interrupted>>

Main ==
    \/ WorkerGet
    \/ WorkerInsert
    \/ WorkerCheck
    \/ Interrupt
    \/ InterruptInSet
    \/ InterruptInCommit
    \/ OnKeyboardInterrupt
    \/ ReceiverExit
    \/ DatabaseExit

Next == Tick \/ Receiver \/ Main

Spec == Init /\ [][Next]_vars

----------------------------------------------------------------------------
(* Properties                                                              *)

IsPrefix(a, b) == Len(a) <= Len(b) /\ a = SubSeq(b, 1, Len(a))

\* the step is a commit issued by the loop of process_data
WorkerCommits == pc = "check" /\ pc' \in {"get", "stop_loop"}
                 /\ Len(sink_ops') > Len(sink_ops)

\* the step is the batching test of process_data
WorkerChecks == pc = "check" /\ pc' \in {"get", "stop_loop"}

\* C1: two consecutive commits issued by the worker loop are at least one
\* full COMMIT_FREQUENCY apart.
C1_AtMostOneCommitPerInterval ==
    [][(WorkerCommits /\ last_commit_at # NoTime)
          => now - last_commit_at >= COMMIT_FREQUENCY]_vars

\* C2: after persisting an event the worker commits if and only if the time
\* elapsed since the last commit is at least COMMIT_FREQUENCY.
C2_CommitIffIntervalElapsed ==
    [][WorkerChecks
          => ((Len(sink_ops') > Len(sink_ops))
                <=> (now - time_of_last_commit >= COMMIT_FREQUENCY))]_vars

\* C3: _time_of_last_commit is the time of the last commit the worker
\* issued, or the time the worker was constructed if it issued none.
C3_CommitClockReset ==
    LET constructed_at == 0
    IN  time_of_last_commit = IF last_commit_at = NoTime THEN constructed_at
                              ELSE last_commit_at

\* C4: an insert is covered by a commit within one COMMIT_FREQUENCY; stated
\* for the worker blocked in get() on the empty queue after its last insert.
C4_NoInsertLeftUncommitted ==
    (pc = "get" /\ queue = <<>> /\ uncommitted_since # NoTime)
        => now - uncommitted_since <= COMMIT_FREQUENCY

\* C5: a malformed payload does not end the delivery loop: no exception
\* leaves a callback.
C5_DecodeFailureCaught ==
    cb.status # "raised" /\ rstate # "dead"

\* C6: every Message on the queue or held by the worker carries a timestamp
\* that dateutil can parse.
C6_QueuedTimestampsParse ==
    /\ \A i \in 1..Len(queue) : Parse(TimestampOf(queue[i])) # ParseError
    /\ pc = "insert" => Parse(TimestampOf(item)) # ParseError

Producers == {"SampleTemperature", "Pressure", "Flow", "Valve", "Temperature"}

OfKind(seq, kind) == LET Is(m) == m.kind = kind IN SelectSeq(seq, Is)

InsertOps == LET Is(o) == o.op # "commit" IN SelectSeq(sink_ops, Is)

\* the insert_* calls made so far for Messages of one kind
InsertsOfKind(kind) ==
    LET Is(o) == o.op = InsertMethod(kind) IN SelectSeq(sink_ops, Is)

\* C7: the Messages one callback has put are got, and inserted, in the order
\* it put them, whatever the other callbacks put in between.
C7_FifoPerProducer ==
    \A kind \in Producers :
        /\ IsPrefix(OfKind(taken, kind), OfKind(enq, kind))
        /\ LET ins == InsertsOfKind(kind)
               put == OfKind(enq, kind)
           IN  /\ Len(ins) <= Len(put)
               /\ \A i \in 1..Len(ins) : ins[i].args = InsertCall(put[i]).args

C7_Witness ==
    \E i, j, k \in 1..Len(taken) :
        /\ i < j
        /\ taken[i].kind = taken[j].kind
        /\ taken[i] # taken[j]
        /\ taken[k].kind # taken[i].kind
        /\ Len(InsertsOfKind(taken[i].kind)) >= 2

\* a well-formed io/state payload: JSON, distinct valve names, every entry
\* with its state and its timestamp
WellFormedValves(message) ==
    /\ message.json
    /\ \A i, j \in 1..Len(message.values) :
          message.values[i].name = message.values[j].name => i = j
    /\ \A i \in 1..Len(message.values) :
          message.values[i].state # Absent /\ message.values[i].timestamp # Absent

\* the Messages the callback invocation cb has put
PutByCallback == SubSeq(enq, cb.base + 1, Len(enq))

\* C8: _on_valves, given a well-formed payload of k entries, puts exactly k
\* ValveMessages, one per entry, with that entry's name, state and timestamp,
\* and nothing else reaches the queue.
C8_ValvesFanOut ==
    (cb.topic = "ald/io/state" /\ WellFormedValves(cb.message))
        => LET entries == cb.message.values
               k == Len(entries)
               done == k - Len(rvalves)
           IN  /\ enq = taken \o queue
               /\ cb.status = "returned" <=> done = k
               /\ Len(PutByCallback) = done
               /\ \A i \in 1..done :
                     PutByCallback[i] = [kind |-> "Valve",
                                         timestamp |-> entries[i].timestamp,
                                         name |-> entries[i].name,
                                         state |-> entries[i].state]

C8_Witness ==
    /\ cb.topic = "ald/io/state"
    /\ WellFormedValves(cb.message)
    /\ cb.status = "returned"
    /\ Len(cb.message.values) = 2
    /\ Len(PutByCallback) = 2

\* C9: as long as no sink operation has failed and the worker has not been
\* interrupted, the Messages got so far are the Messages put so far, in
\* order, and each of them that the worker has dealt with made exactly one
\* insert_* call of its kind with its field values.
C9_ExactlyOnce ==
    exc \notin {"KeyboardInterrupt", "MySQLError"}
        => LET dealt == IF pc = "insert" THEN SubSeq(taken, 1, Len(taken) - 1)
                        ELSE taken
           IN  /\ enq = taken \o queue
               /\ Len(InsertOps) = Len(dealt)
               /\ \A i \in 1..Len(InsertOps) :
                     /\ InsertOps[i].op = InsertCall(dealt[i]).op
                     /\ InsertOps[i].args = InsertCall(dealt[i]).args

\* the step is taken by the loop thread
LoopStep == ndelivered' # ndelivered \/ rvalves' # rvalves

\* C10: every sink call is made by the main thread, and no step of the loop
\* thread touches the sink, the connection or _time_of_last_commit.
C10_SingleWriter ==
    [][/\ \A i \in 1..Len(sink_ops') : sink_ops'[i].by = "main"
       /\ LoopStep => UNCHANGED <<dbvars, time_of_last_commit>>]_vars

C10_Witness ==
    /\ rstate = "valves"
    /\ \E i \in 1..Len(sink_ops) : sink_ops[i].op = "commit"
    /\ \E i \in 1..Len(sink_ops) : sink_ops[i].op # "commit"
    /\ pc = "insert"

\* the step is a call of insert_* by process_data in which the sink raised
InsertFails ==
    /\ pc = "insert"
    /\ Len(sink_ops') = Len(sink_ops) + 1
    /\ sink_ops'[Len(sink_ops')].outcome = "raised"

\* C11: when the insert_* call for a dequeued Message raises, the exception
\* leaves process_data (it is recorded and the loop is left, nothing
\* swallows it), and _time_of_last_commit, _new_to_commit and the state of
\* the connection are what they were before the call; the exception is
\* still the one reported once the loop has been left.
C11_InsertFailureSurfaced ==
    [][/\ InsertFails
          => /\ exc' = "MySQLError"
             /\ pc' = "stop_loop"
             /\ UNCHANGED <<time_of_last_commit, new_to_commit, conn_dirty,
                            conn_commits, last_commit_at>>
       /\ (exc = "MySQLError" /\ pc # "exited") => exc' = "MySQLError"]_vars

C11_Witness ==
    /\ pc = "stop_loop"
    /\ exc = "MySQLError"
    /\ Len(sink_ops) >= 2
    /\ sink_ops[Len(sink_ops)].op # "commit"
    /\ sink_ops[Len(sink_ops)].outcome = "raised"
    /\ ~new_to_commit

\* C12 as claimed: when the process has exited after a KeyboardInterrupt
\* raised in the worker loop, no write is left uncommitted.
C12_InterruptCommitsAll ==
    (pc = "exited" /\ interrupted) => (~conn_dirty /\ uncommitted_since = NoTime)

\* C12 amended: the connection is never closed with a write uncommitted,
\* and when the worker loop was left by a KeyboardInterrupt, wherever in the
\* loop it was raised, the process exits with every write committed and the
\* connection closed unless the last commit made on the connection raised.
C12_InterruptCommitsUnlessCommitRaises ==
    /\ ~conn_open => (~conn_dirty /\ uncommitted_since = NoTime)
    /\ (pc = "exited" /\ interrupted)
          => \/ ~conn_dirty /\ ~conn_open /\ uncommitted_since = NoTime
             \/ exc = "MySQLError" /\ conn_open

\* the interrupt came inside _set, with the row executed and the flag not
\* yet raised, and the process has exited
C12_Witness ==
    /\ pc = "exited" /\ interrupted
    /\ ~conn_open
    /\ conn_commits = 1
    /\ \E i \in 1..Len(sink_ops) :
          sink_ops[i].db = "execute" /\ sink_ops[i].outcome = "interrupted"

\* an insert_* call has returned since the commit() call before the i-th
\* sink call (since the sink was constructed, if there is none)
InsertedSincePreviousCommitCall(i) ==
    \E j \in 1..(i - 1) :
        /\ sink_ops[j].op # "commit"
        /\ sink_ops[j].outcome = "returned"
        /\ \A k \in (j + 1)..(i - 1) : sink_ops[k].op # "commit"

\* C13: a call of DatabaseInterface.commit() calls commit on the connection
\* exactly when an insert_* call has returned since the previous commit()
\* call, so of two commit() calls with no insert between them at most one
\* reaches the connection.
C13_CommitNoopWhenNothingPending ==
    /\ \A i \in 1..Len(sink_ops) :
          (sink_ops[i].op = "commit" /\ sink_ops[i].outcome # "interrupted")
              => (sink_ops[i].db = "commit" <=> InsertedSincePreviousCommitCall(i))
    /\ \A i \in 1..(Len(sink_ops) - 1) :
          (sink_ops[i].op = "commit" /\ sink_ops[i + 1].op = "commit")
              => sink_ops[i + 1].db = "none"

C13_Witness ==
    \E i \in 1..(Len(sink_ops) - 1) :
        /\ sink_ops[i].op = "commit" /\ sink_ops[i].db = "commit"
        /\ sink_ops[i].outcome = "returned"
        /\ sink_ops[i + 1].op = "commit" /\ sink_ops[i + 1].db = "none"
        /\ sink_ops[i + 1].outcome = "returned"

\* the JSON texts of the falsy values 0, 0.0 and false
Falsy == {"0", "0.0", "false"}

\* the callback invocation cb was given a JSON object with every key of keys
HasKeys(keys) ==
    /\ cb.message.json
    /\ \A k \in keys : cb.message.values[k] # Absent

\* C14: a callback given a well-formed payload puts one Message whose
\* fields are the payload's values, key by key, a falsy value (0, 0.0,
\* false) included; for io/state this holds of each entry's Message.
C14_DecodeFaithful ==
    LET v == cb.message.values
    IN  /\ (cb.topic = "ald/flow/state"
             /\ HasKeys({"temperature", "volflow", "massflow", "pressure",
                         "setpoint", "timestamp"}))
            => PutByCallback = <<[kind |-> "Flow", temperature |-> v.temperature,
                                  volume_flow |-> v.volflow, mass_flow |-> v.massflow,
                                  pressure |-> v.pressure, setpoint |-> v.setpoint,
                                  timestamp |-> v.timestamp]>>
        /\ (cb.topic = "ald/pressure/main" /\ HasKeys({"timestamp", "pressure"}))
            => PutByCallback = <<[kind |-> "Pressure", timestamp |-> v.timestamp,
                                  pressure |-> v.pressure]>>
        /\ (cb.topic = "ald/sample/temperature"
             /\ HasKeys({"temperature", "resistance", "timestamp"}))
            => PutByCallback = <<[kind |-> "SampleTemperature",
                                  temperature |-> v.temperature,
                                  resistance |-> v.resistance,
                                  timestamp |-> v.timestamp]>>
        /\ (cb.topic = "ald/temperature"
             /\ HasKeys({"loop", "datetime", "temperature", "wsp", "tsp", "power"}))
            => PutByCallback = <<[kind |-> "Temperature", loop_id |-> v.loop,
                                  datetime |-> v.datetime,
                                  temperature |-> v.temperature, wsp |-> v.wsp,
                                  tsp |-> v.tsp, power |-> v.power]>>
        /\ (cb.topic = "ald/io/state" /\ WellFormedValves(cb.message))
            => \A i \in 1..Len(PutByCallback) :
                  /\ PutByCallback[i].state = v[i].state
                  /\ PutByCallback[i].timestamp = v[i].timestamp

\* a pressure of 0.0 has been put, and so has a valve state of false
C14_Witness ==
    /\ \E i \in 1..Len(enq) : enq[i].kind = "Pressure" /\ enq[i].pressure \in Falsy
    /\ cb.topic = "ald/io/state" /\ WellFormedValves(cb.message)
    /\ cb.status = "returned"
    /\ \E i \in 1..Len(PutByCallback) : PutByCallback[i].state \in Falsy

\* the step is one Queue.put made by a callback
PutStep == Len(enq') = Len(enq) + 1

\* C15: Queue.put neither blocks nor fails, whatever the length of the
\* queue and wherever the main thread is (blocked in get, inserting, or out
\* of the loop): a callback that has a Message to put can take its step,
\* and the step appends that one Message at the tail of the queue and
\* removes nothing.
C15_EnqueueNeverBlocks ==
    /\ [](rstate = "valves" => ENABLED OnValvesEntry)
    /\ [](Deliverable => \A message \in FlowPayloads : ENABLED OnFlowState(message))
    /\ [][/\ enq' # enq => PutStep
          /\ PutStep => /\ enq' = Append(enq, enq'[Len(enq')])
                        /\ queue' = Append(queue, enq'[Len(enq')])]_vars

\* the worker loop has been left, the queue is not empty, and _on_valves
\* is about to put
C15_Witness ==
    /\ pc = "stop_loop"
    /\ rstate = "valves"
    /\ rvalves # <<>>
    /\ rvalves[1].state # Absent
    /\ Len(queue) >= 1

\* the step is a call of DatabaseInterface.commit()
CommitStep ==
    /\ Len(sink_ops') = Len(sink_ops) + 1
    /\ sink_ops'[Len(sink_ops')].op = "commit"

\* C16: the worker loop tests the commit condition only right after an
\* insert: every commit() call, the one of the KeyboardInterrupt handler
\* apart, is made from the batching test that follows insert_into_db, and while the worker is blocked in get() on
\* the empty queue no commit is made and the sink is left as it is,
\* whatever the clock reads and whether or not writes are pending.
C16_CommitOnlyAfterInsert ==
    [][/\ (CommitStep /\ pc # "interrupted") => pc = "check"
       /\ (pc = "get" /\ queue = <<>>)
             => (~CommitStep /\ UNCHANGED <<dbvars, last_commit_at, uncommitted_since>>)]_vars

\* blocked on the empty queue with a write pending for more than
\* COMMIT_FREQUENCY
C16_Witness ==
    /\ pc = "get"
    /\ queue = <<>>
    /\ new_to_commit
    /\ uncommitted_since # NoTime
    /\ now - uncommitted_since > COMMIT_FREQUENCY

\* the loop thread runs no callback any more
LoopStopped == rstate \in {"stopped", "dead"}

\* process_data has been left
LeftLoop == pc \in {"interrupted", "stop_loop", "close_db", "exited"}

\* the step calls commit on the connection
ConnectionCommitStep ==
    \/ CommitStep /\ sink_ops'[Len(sink_ops')].db = "commit"
    \/ pc = "close_db" /\ pc' = "exited"

\* the step is an insert_* call
InsertStep ==
    /\ Len(sink_ops') = Len(sink_ops) + 1
    /\ sink_ops'[Len(sink_ops')].op # "commit"

\* C17 as claimed: once process_data has been left, by KeyboardInterrupt or
\* by another exception, the loop thread is stopped first and only then is
\* the connection committed, once, by the step that closes it; after the
\* connection is closed no insert and no commit is made, and the Messages
\* still on the queue are not inserted.
C17_ShutdownOrder ==
    /\ [](~conn_open => pc = "exited")
    /\ [][/\ (LeftLoop /\ ConnectionCommitStep) => (LoopStopped /\ pc = "close_db")
          /\ ~conn_open => UNCHANGED <<dbvars, queue, taken>>
          /\ LeftLoop => (~InsertStep /\ taken' = taken)]_vars

\* C17 amended: once process_data has been left, the loop thread is stopped
\* before OpenDatabaseConnection.__exit__ commits and closes; the
\* connection is closed at most once, by __exit__ alone and only when its
\* own commit has returned, so that the process exits with the connection
\* closed or with the exception of that commit; the one commit made before
\* the loop thread is stopped is that of the KeyboardInterrupt handler;
\* after the connection is closed no insert and no commit is made, and the
\* Messages still on the queue are not inserted.
C17_ShutdownOrderAmended ==
    /\ [](pc \in {"close_db", "exited"} => LoopStopped)
    /\ [](pc = "exited" => (~conn_open \/ exc = "MySQLError"))
    /\ [](~conn_open => pc = "exited")
    /\ [][/\ (LeftLoop /\ ConnectionCommitStep /\ ~LoopStopped) => pc = "interrupted"
          /\ (conn_open /\ ~conn_open')
                => (pc = "close_db" /\ conn_commits' = conn_commits + 1)
          /\ ~conn_open => UNCHANGED <<dbvars, queue, taken>>
          /\ LeftLoop => (~InsertStep /\ taken' = taken)]_vars

\* exit after a KeyboardInterrupt: the handler committed while the loop
\* thread ran, __exit__ committed again and closed, a Message is left queued
C17_Witness ==
    /\ pc = "exited"
    /\ interrupted
    /\ ~conn_open
    /\ rstate = "stopped"
    /\ conn_commits = 2
    /\ queue # <<>>

\* an insert_* call has returned since the last commit of the connection
\* that returned (since the sink was constructed, if there is none)
InsertedSinceLastSuccessfulCommit ==
    \E j \in 1..Len(sink_ops) :
        /\ sink_ops[j].op # "commit"
        /\ sink_ops[j].outcome = "returned"
        /\ \A k \in (j + 1)..Len(sink_ops) :
              ~(sink_ops[k].op = "commit" /\ sink_ops[k].db = "commit"
                /\ sink_ops[k].outcome = "returned")

\* C18: while the connection is open, _new_to_commit is true exactly when
\* an insert has succeeded since the last successful commit of the
\* connection; so after a commit() in which the connection's commit raised
\* the flag is still true.
C18_FlagTracksPending ==
    (conn_open /\ pc # "exited")
        => (new_to_commit <=> InsertedSinceLastSuccessfulCommit)

\* the topics whose callback puts one Message, with the keys it reads
SingleEventKeys(topic) ==
    CASE topic = "ald/flow/state" ->
           {"temperature", "volflow", "massflow", "pressure", "setpoint", "timestamp"}
      [] topic = "ald/pressure/main" -> {"timestamp", "pressure"}
      [] topic = "ald/sample/temperature" -> {"temperature", "resistance", "timestamp"}
      [] topic = "ald/temperature" ->
           {"loop", "datetime", "temperature", "wsp", "tsp", "power"}
      [] OTHER -> {}

\* the callback invocation cb, on a single-event topic, was given a payload
\* that is not JSON or lacks a key
MalformedSingle ==
    /\ SingleEventKeys(cb.topic) # {}
    /\ \/ ~cb.message.json
       \/ \E k \in SingleEventKeys(cb.topic) : cb.message.values[k] = Absent

\* C19: on the four single-event topics decoding is all or nothing: a
\* callback given malformed JSON or a payload lacking a key raises and has
\* put nothing, the queue being what it was with what the worker has got
\* since taken off.
C19_DecodeAllOrNothing ==
    MalformedSingle
        => /\ cb.status = "raised"
           /\ PutByCallback = <<>>
           /\ enq = taken \o queue

\* a payload lacking a key was delivered while another Message was queued
C19_Witness ==
    /\ MalformedSingle
    /\ cb.message.json
    /\ cb.status = "raised"
    /\ queue # <<>>
    /\ Len(enq) = cb.base

\* the callback invocation cb, on io/state, was given a payload that is not
\* JSON or has an entry lacking its state or its timestamp
MalformedValves ==
    /\ cb.topic = "ald/io/state"
    /\ \/ ~cb.message.json
       \/ \E i \in 1..Len(cb.message.values) :
             \/ cb.message.values[i].state = Absent
             \/ cb.message.values[i].timestamp = Absent

\* C20: _on_valves given a payload that fails decoding puts no
\* ValveMessage: once it has raised, nothing it put is on the queue, the
\* entries before the bad one included.
C20_NoPartialFanOut ==
    (MalformedValves /\ cb.status = "raised") => PutByCallback = <<>>

====
